---------------------------- MODULE Spec2Model ----------------------------
(***************************************************************************)
(* A model of libevtx's record values (libevtx_record_values.c): the       *)
(* record header parser, the XML document reader, clone/free and the       *)
(* memoising accessors.                                                    *)
(*                                                                         *)
(* The XML tree library (libfwevt) and the value library (libfvalue) are   *)
(* collaborators of the record values; their operations are modelled by    *)
(* what the specification says of them (section 4.3).                      *)
(***************************************************************************)
EXTENDS Integers, Sequences, FiniteSets, TLC

(***************************************************************************)
(* Bounds of the model.                                                    *)
(***************************************************************************)
\* the number of caller-side record pointers (libevtx_record_values_t *)
NumSlots == 2
\* the number of XML documents that can be allocated in one behaviour
MaxTrees == 2

(***************************************************************************)
(* Program constants.                                                      *)
(***************************************************************************)
\* sizeof( evtx_event_record_header_t ): signature[4] size[4] identifier[8]
\* written_time[8]
HDR == 24

evtx_event_record_signature == <<42, 42, 0, 0>>

\* the event data type of a record: unset (the zero of memory_set), or set
\* by get_event_data_xml_tag
LIBEVTX_RECORD_VALUES_EVENT_DATA_TYPE_NONE == "NONE"
LIBEVTX_RECORD_VALUES_EVENT_DATA_TYPE_EVENT_DATA == "EVENT_DATA"
LIBEVTX_RECORD_VALUES_EVENT_DATA_TYPE_USER_DATA == "USER_DATA"

(***************************************************************************)
(* size_t arithmetic.  A size_t is kept as the centred residue of its      *)
(* value modulo 2^w (w the width of size_t): a negative integer k stands   *)
(* for 2^w + k.  Sums and differences of residues are then plain integer   *)
(* sums and differences, and the unsigned order is SizeLess.               *)
(***************************************************************************)
SizeLess(a, b) == IF (a < 0) = (b < 0) THEN a < b ELSE b < 0

SizeLeq(a, b) == a = b \/ SizeLess(a, b)

\* SSIZE_MAX is 2^(w-1) - 1: the residues above it are the negative ones
ExceedsSSizeMax(a) == a < 0

(***************************************************************************)
(* byte_stream.h: little-endian reads.  chunk_data is a sequence of bytes  *)
(* and byte i of the C buffer is chunk_data[i + 1].                        *)
(***************************************************************************)
RECURSIVE LittleEndian(_, _, _)
LittleEndian(data, offset, n) ==
    IF n = 0 THEN 0
    ELSE data[offset + 1] + 256 * LittleEndian(data, offset + 1, n - 1)

byte_stream_copy_to_uint32_little_endian(data, offset) ==
    LittleEndian(data, offset, 4)

byte_stream_copy_to_uint64_little_endian(data, offset) ==
    LittleEndian(data, offset, 8)

\* the n bytes of value v, least significant first
RECURSIVE ToLittleEndian(_, _)
ToLittleEndian(v, n) ==
    IF n = 0 THEN << >> ELSE <<v % 256>> \o ToLittleEndian(v \div 256, n - 1)

Zeros(n) == [i \in 1..n |-> 0]

\* overwrite the bytes of data from C offset at with the bytes of part
Overlay(data, at, part) ==
    [i \in 1..Len(data) |->
        IF i - 1 >= at /\ i - 1 < at + Len(part) THEN part[i - at] ELSE data[i]]


(***************************************************************************)
(* The XML tree (libfwevt).  A document is a sequence of nodes, node 1 the *)
(* root element; a node is an element or an attribute of its parent, and   *)
(* the children of an element are its element nodes in sequence order.     *)
(* A value is typed: "int" (n), "str" (s, code points), "bin" (s, bytes).  *)
(***************************************************************************)
NoValue == [t |-> "none", n |-> 0, s |-> << >>]
IntValue(n) == [t |-> "int", n |-> n, s |-> << >>]
StrValue(s) == [t |-> "str", n |-> 0, s |-> s]
BinValue(s) == [t |-> "bin", n |-> 0, s |-> s]

Elem(name, parent, val) ==
    [kind |-> "elem", name |-> name, parent |-> parent, val |-> val]
Attr(name, parent, val) ==
    [kind |-> "attr", name |-> name, parent |-> parent, val |-> val]

\* element and attribute names, as code points
NameEvent == <<69, 118, 101, 110, 116>>
NameSystem == <<83, 121, 115, 116, 101, 109>>
NameEventID == <<69, 118, 101, 110, 116, 73, 68>>
NameLevel == <<76, 101, 118, 101, 108>>
NameProvider == <<80, 114, 111, 118, 105, 100, 101, 114>>
NameName == <<78, 97, 109, 101>>
NameQualifiers == <<81, 117, 97, 108, 105, 102, 105, 101, 114, 115>>
NameComputer == <<67, 111, 109, 112, 117, 116, 101, 114>>
NameEventData == <<69, 118, 101, 110, 116, 68, 97, 116, 97>>
NameData == <<68, 97, 116, 97>>
NameBinaryData == <<66, 105, 110, 97, 114, 121, 68, 97, 116, 97>>
NameEventSourceName == <<69, 118, 101, 110, 116, 83, 111, 117, 114, 99, 101, 78, 97, 109, 101>>
NameFoo == <<70, 111, 111>>
NameUserData == <<85, 115, 101, 114, 68, 97, 116, 97>>
NameMyData == <<77, 121, 68, 97, 116, 97>>
NameX == <<88>>
NameY == <<89>>
NameA == <<65>>
NameB == <<66>>

\* "1", "2", "PC", "Sec", "App", "\u00e9A" as code points
Str1 == <<49>>
Str2 == <<50>>
StrPC == <<80, 67>>
StrSec == <<83, 101, 99>>
StrApp == <<65, 112, 112>>
StrAccent == <<233, 65>>

\* S1: <Event><System><EventID>4624</EventID><Level>0</Level></System></Event>
DocS1 ==
    << Elem(NameEvent, 0, NoValue), Elem(NameSystem, 1, NoValue),
       Elem(NameEventID, 2, IntValue(4624)), Elem(NameLevel, 2, IntValue(0)) >>

\* S2 and S3: EventID 0x1234 with Qualifiers 1, a Provider with Name only,
\* a Computer, and EventData holding Data, Data, BinaryData
DocS2 ==
    << Elem(NameEvent, 0, NoValue), Elem(NameSystem, 1, NoValue),
       Elem(NameProvider, 2, NoValue), Attr(NameName, 3, StrValue(StrSec)),
       Elem(NameEventID, 2, IntValue(4660)), Attr(NameQualifiers, 5, IntValue(1)),
       Elem(NameLevel, 2, IntValue(4)), Elem(NameComputer, 2, StrValue(StrPC)),
       Elem(NameEventData, 1, NoValue), Elem(NameData, 9, StrValue(Str1)),
       Elem(NameData, 9, StrValue(StrAccent)),
       Elem(NameBinaryData, 9, BinValue(<<222, 173>>)) >>

\* S5: a Provider with Name and EventSourceName, an EventID of more than
\* 16 bits, EventData holding Data, Data, Foo, Data
DocS5 ==
    << Elem(NameEvent, 0, NoValue), Elem(NameSystem, 1, NoValue),
       Elem(NameProvider, 2, NoValue), Attr(NameName, 3, StrValue(StrSec)),
       Attr(NameEventSourceName, 3, StrValue(StrApp)),
       Elem(NameEventID, 2, IntValue(65537)),
       Elem(NameEventData, 1, NoValue), Elem(NameData, 7, StrValue(Str1)),
       Elem(NameData, 7, StrValue(Str2)), Elem(NameFoo, 7, StrValue(Str1)),
       Elem(NameData, 7, StrValue(Str2)) >>

\* S4: no System; UserData with the single child MyData holding X and Y
DocS4 ==
    << Elem(NameEvent, 0, NoValue), Elem(NameUserData, 1, NoValue),
       Elem(NameMyData, 2, NoValue), Elem(NameX, 3, StrValue(Str1)),
       Elem(NameY, 3, StrValue(Str2)) >>

\* both containers: EventData (Data, Foo) and UserData with one child;
\* a System without EventID, Level, Provider and Computer
DocBoth ==
    << Elem(NameEvent, 0, NoValue), Elem(NameSystem, 1, NoValue),
       Elem(NameUserData, 1, NoValue), Elem(NameMyData, 3, NoValue),
       Elem(NameX, 4, StrValue(Str1)),
       Elem(NameEventData, 1, NoValue), Elem(NameData, 6, IntValue(17)),
       Elem(NameFoo, 6, StrValue(Str2)) >>

\* values that cannot be coerced: a binary EventID, a Level above 255;
\* a Provider without attributes; UserData with two children
DocBad ==
    << Elem(NameEvent, 0, NoValue), Elem(NameSystem, 1, NoValue),
       Elem(NameProvider, 2, NoValue),
       Elem(NameEventID, 2, BinValue(<<1>>)), Elem(NameLevel, 2, IntValue(300)),
       Elem(NameUserData, 1, NoValue), Elem(NameA, 6, NoValue),
       Elem(NameB, 6, NoValue) >>

\* Qualifiers that cannot be coerced; UserData without children
DocBadQualifiers ==
    << Elem(NameEvent, 0, NoValue), Elem(NameSystem, 1, NoValue),
       Elem(NameEventID, 2, IntValue(7)),
       Attr(NameQualifiers, 3, BinValue(<<1>>)),
       Elem(NameUserData, 1, NoValue) >>

\* an EventID of more than 16 bits (0x10001) with Qualifiers of more than
\* 16 bits (0x14001)
DocWideQualifiers ==
    << Elem(NameEvent, 0, NoValue), Elem(NameSystem, 1, NoValue),
       Elem(NameEventID, 2, IntValue(65537)),
       Attr(NameQualifiers, 3, IntValue(81921)) >>

\* the documents the decoder can produce in the model
Docs ==
    << DocS1, DocS2, DocS5, DocS4, DocBoth, DocBad, DocBadQualifiers,
       DocWideQualifiers >>

DocIds == 1..Len(Docs)

\* the k-th smallest (k >= 1) member of a set of integers
RECURSIVE Nth(_, _)
Nth(S, k) ==
    LET m == CHOOSE x \in S : \A y \in S : x <= y
    IN IF k = 1 THEN m ELSE Nth(S \ {m}, k - 1)

ElementsOf(doc, tag) ==
    {i \in 1..Len(doc) : doc[i].kind = "elem" /\ doc[i].parent = tag}

AttributesOf(doc, tag) ==
    {i \in 1..Len(doc) : doc[i].kind = "attr" /\ doc[i].parent = tag}

\* libfwevt_xml_document_get_root_xml_tag
libfwevt_xml_document_get_root_xml_tag(doc) == 1

\* libfwevt_xml_tag_get_element_by_utf8_name: the first child element of
\* that name, 0 when there is none (the call then returns 0).  The name
\* comparison is exact.  A NULL tag (0) is an argument error.
libfwevt_xml_tag_get_element_by_utf8_name(doc, tag, name) ==
    LET S == {i \in ElementsOf(doc, tag) : doc[i].name = name}
    IN IF tag = 0 THEN [ret |-> -1, tag |-> 0]
       ELSE IF S = {} THEN [ret |-> 0, tag |-> 0]
       ELSE [ret |-> 1, tag |-> Nth(S, 1)]

\* libfwevt_xml_tag_get_attribute_by_utf8_name
libfwevt_xml_tag_get_attribute_by_utf8_name(doc, tag, name) ==
    LET S == {i \in AttributesOf(doc, tag) : doc[i].name = name}
    IN IF tag = 0 THEN [ret |-> -1, tag |-> 0]
       ELSE IF S = {} THEN [ret |-> 0, tag |-> 0]
       ELSE [ret |-> 1, tag |-> Nth(S, 1)]

\* libfwevt_xml_tag_get_number_of_elements
libfwevt_xml_tag_get_number_of_elements(doc, tag) ==
    Cardinality(ElementsOf(doc, tag))

\* libfwevt_xml_tag_get_element_by_index: the child element of that
\* zero-based index; an index out of range is an error
libfwevt_xml_tag_get_element_by_index(doc, tag, index) ==
    IF tag = 0 \/ index < 0 \/ index >= Cardinality(ElementsOf(doc, tag))
    THEN [ret |-> -1, tag |-> 0]
    ELSE [ret |-> 1, tag |-> Nth(ElementsOf(doc, tag), index + 1)]

(***************************************************************************)
(* Typed values (libfvalue): coercion to integers and rendering as text.   *)
(***************************************************************************)
\* libfvalue_value_copy_to_32bit: an integer value that fits 32 bits
libfvalue_value_copy_to_32bit(val) ==
    IF val.t = "int" THEN [ret |-> 1, out |-> val.n]
    ELSE [ret |-> -1, out |-> 0]

\* libfvalue_value_copy_to_8bit: an integer value that fits 8 bits
libfvalue_value_copy_to_8bit(val) ==
    IF val.t = "int" /\ val.n <= 255 THEN [ret |-> 1, out |-> val.n]
    ELSE [ret |-> -1, out |-> 0]

\* the decimal digits of n as code points
RECURSIVE Decimal(_)
Decimal(n) ==
    IF n < 10 THEN <<48 + n>> ELSE Decimal(n \div 10) \o <<48 + (n % 10)>>

HexDigit(d) == IF d < 10 THEN 48 + d ELSE 55 + d

\* the bytes of a binary value as upper-case hexadecimal digits
RECURSIVE Hex(_)
Hex(bytes) ==
    IF bytes = << >> THEN << >>
    ELSE <<HexDigit(Head(bytes) \div 16), HexDigit(Head(bytes) % 16)>>
         \o Hex(Tail(bytes))

\* the text of a value, as code points
Render(val) ==
    CASE val.t = "int" -> Decimal(val.n)
      [] val.t = "str" -> val.s
      [] val.t = "bin" -> Hex(val.s)
      [] OTHER -> << >>

\* the UTF-8 bytes of a code point (below 0x10000)
UTF8Bytes(c) ==
    IF c < 128 THEN <<c>>
    ELSE IF c < 2048 THEN <<192 + (c \div 64), 128 + (c % 64)>>
    ELSE <<224 + (c \div 4096), 128 + ((c \div 64) % 64), 128 + (c % 64)>>

\* the UTF-8 bytes of the code points s[lo], ..., s[hi]
RECURSIVE UTF8Range(_, _, _)
UTF8Range(s, lo, hi) ==
    IF lo > hi THEN << >>
    ELSE IF lo = hi THEN UTF8Bytes(s[lo])
    ELSE UTF8Range(s, lo, (lo + hi) \div 2)
         \o UTF8Range(s, ((lo + hi) \div 2) + 1, hi)

\* the UTF-8 bytes of a string of code points
UTF8(s) == UTF8Range(s, 1, Len(s))

\* the UTF-16 code units of a string of code points (below 0x10000)
UTF16(s) == s

Encode(enc, s) == IF enc = "utf8" THEN UTF8(s) ELSE UTF16(s)

\* libfvalue_value_get_utf8_string_size, ..._utf16_string_size: the size
\* in code units, the end-of-string character included
StringSize(enc, s) == Len(Encode(enc, s)) + 1

\* libfvalue_value_copy_to_utf8_string, ..._utf16_string: the string with
\* its end-of-string character, when the buffer holds it
CopyString(enc, s, buffer_size) ==
    IF buffer_size < StringSize(enc, s) THEN [ret |-> -1, out |-> << >>]
    ELSE [ret |-> 1, out |-> Encode(enc, s) \o <<0>>]

\* libfwevt_xml_tag_get_utf8_name_size: the size of the name of an
\* element, the end-of-string character included
libfwevt_xml_tag_get_utf8_name_size(doc, tag) == Len(UTF8(doc[tag].name)) + 1

\* the concatenation of the sequences seq[lo], ..., seq[hi]
RECURSIVE ConcatRange(_, _, _)
ConcatRange(seq, lo, hi) ==
    IF lo > hi THEN << >>
    ELSE IF lo = hi THEN seq[lo]
    ELSE ConcatRange(seq, lo, (lo + hi) \div 2)
         \o ConcatRange(seq, ((lo + hi) \div 2) + 1, hi)

Concat(seq) == ConcatRange(seq, 1, Len(seq))

\* a set of integers as the sequence of its members in increasing order
Sorted(S) == [k \in 1..Cardinality(S) |-> Nth(S, k)]

\* the XML text of an element (section 4.3): <name attrs>content</name>,
\* or <name attrs/> when it has neither children nor a value
RECURSIVE XmlText(_, _)
XmlText(doc, tag) ==
    LET attrs == Sorted(AttributesOf(doc, tag))
        elems == Sorted(ElementsOf(doc, tag))
        attrText == Concat([k \in 1..Len(attrs) |->
                              <<32>> \o doc[attrs[k]].name \o <<61, 34>>
                              \o Render(doc[attrs[k]].val) \o <<34>>])
        content == Render(doc[tag].val)
                   \o Concat([k \in 1..Len(elems) |-> XmlText(doc, elems[k])])
    IN IF content = << >>
       THEN <<60>> \o doc[tag].name \o attrText \o <<47, 62>>
       ELSE <<60>> \o doc[tag].name \o attrText \o <<62>> \o content
            \o <<60, 47>> \o doc[tag].name \o <<62>>

(***************************************************************************)
(* The state.                                                              *)
(***************************************************************************)
VARIABLES
    record_values,  \* per caller pointer: NULL or the libevtx_record_values_t
    xml_documents,  \* the XML documents ever allocated: state and content
    chunk_data,     \* the chunk buffer passed to the last call, if any
    last,           \* the last call: operation, arguments, result, output
    prev,           \* the result of the call before, when last repeats it
    reads,          \* what the last call read of the chunk buffer
    header_read     \* the slots on whose record read_header has succeeded

vars ==
    <<record_values, xml_documents, chunk_data, last, prev, reads, header_read>>

Slots == 1..NumSlots
TreeIds == 1..MaxTrees

\* a memoised handle: a node of a document; NULL is NullHandle
NullHandle == [tree |-> 0, node |-> 0]
Handle(tree, node) == [tree |-> tree, node |-> node]

NULL == [null |-> TRUE]

\* memory_set( record_values, 0, sizeof( libevtx_record_values_t ) )
ZeroRecord ==
    [ chunk_data_offset |-> 0, data_size |-> 0, identifier |-> 0,
      written_time |-> 0, xml_document |-> 0,
      event_identifier_value |-> NullHandle, level_value |-> NullHandle,
      provider_name_value |-> NullHandle, computer_value |-> NullHandle,
      event_data_xml_tag |-> NullHandle,
      event_data_type |-> LIBEVTX_RECORD_VALUES_EVENT_DATA_TYPE_NONE,
      binary_data_value |-> NullHandle ]

\* an output parameter of a call: not written, or written with a sequence
\* of numbers (a number is a sequence of length one)
Unwritten == [w |-> FALSE, v |-> << >>]
Out(v) == [w |-> TRUE, v |-> v]

Outcome(ret, out, rec) == [ret |-> ret, out |-> out, rec |-> rec]

Call(op, slot, enc, kind, index, size, ret, out) ==
    [ op |-> op, slot |-> slot, enc |-> enc, kind |-> kind, index |-> index,
      size |-> size, ret |-> ret, out |-> out ]

NoCall == Call("none", 0, "", "", 0, 0, 0, Unwritten)

NoPrev == [same |-> FALSE, ret |-> 0, out |-> Unwritten]

\* the call before, kept when the new call repeats it (same operation on
\* the same record with the same arguments)
Repeats(call) ==
    /\ call.op = last.op
    /\ call.slot = last.slot
    /\ call.enc = last.enc
    /\ call.kind = last.kind
    /\ call.index = last.index
    /\ call.size = last.size

\* the chunk bytes a call read: the indexes of the bytes it read itself,
\* and the range [from, to) of the buffer it handed to the binary XML
\* decoder (from = to = 0 when the decoder was not called)
ChunkReads(bytes, from, to) == [bytes |-> bytes, from |-> from, to |-> to]

NoReads == ChunkReads({}, 0, 0)

\* the slots on whose record read_header has succeeded, after the call: a
\* new record has no header, and a clone has what its source has (the
\* source of a clone is call.index)
HeaderReadAfter(call) ==
    IF call.op = "read_header" /\ call.ret = 1
    THEN header_read \cup {call.slot}
    ELSE IF call.op = "free"
    THEN header_read \ {call.slot}
    ELSE IF call.op = "clone" /\ call.ret = 1 /\ call.index \in header_read
    THEN header_read \cup {call.slot}
    ELSE header_read

ObserveReads(call, chunk_reads) ==
    /\ last' = call
    /\ prev' = IF Repeats(call)
               THEN [same |-> TRUE, ret |-> last.ret, out |-> last.out]
               ELSE NoPrev
    /\ reads' = chunk_reads
    /\ header_read' = HeaderReadAfter(call)

Observe(call) == ObserveReads(call, NoReads)

IsLive(tree) == tree \in TreeIds /\ xml_documents[tree].state = "live"

DocOf(tree) == Docs[xml_documents[tree].doc]

\* freed memory read through a dangling pointer: the former content, or
\* content without names and values
Scrub(doc) ==
    [i \in 1..Len(doc) |-> [doc[i] EXCEPT !.name = << >>, !.val = NoValue]]

\* what a read of the document of a handle can see
ReadDocs(tree) ==
    IF IsLive(tree) THEN {DocOf(tree)} ELSE {DocOf(tree), Scrub(DocOf(tree))}

\* the values a memoised value handle can yield
HandleValues(handle) == {doc[handle.node].val : doc \in ReadDocs(handle.tree)}

FreshTrees == {t \in TreeIds : xml_documents[t].state = "unused"}

NewTree == CHOOSE t \in FreshTrees : \A u \in FreshTrees : t <= u

Init ==
    /\ record_values = [s \in Slots |-> NULL]
    /\ xml_documents = [t \in TreeIds |-> [state |-> "unused", doc |-> 0]]
    /\ chunk_data = << >>
    /\ last = NoCall
    /\ prev = NoPrev
    /\ reads = NoReads
    /\ header_read = {}

(***************************************************************************)
(* libevtx_record_values_initialize                                        *)
(***************************************************************************)
\* a faulty initialize that replaces a record that exists already
InitializeOverwriting(s, alloc_ok) ==
    /\ UNCHANGED xml_documents
    /\ chunk_data' = << >>
    /\ IF ~alloc_ok
       THEN /\ UNCHANGED record_values
            /\ Observe(Call("initialize", s, "", "", 0, 0, -1, Unwritten))
       ELSE /\ record_values' = [record_values EXCEPT ![s] = ZeroRecord]
            /\ Observe(Call("initialize", s, "", "", 0, 0, 1, Unwritten))

Initialize(s, alloc_ok) ==
    /\ UNCHANGED xml_documents
    /\ chunk_data' = << >>
    /\ IF record_values[s] # NULL
       THEN \* value already set
            /\ UNCHANGED record_values
            /\ Observe(Call("initialize", s, "", "", 0, 0, -1, Unwritten))
       ELSE IF ~alloc_ok
       THEN \* memory_allocate_structure or memory_set failed
            /\ UNCHANGED record_values
            /\ Observe(Call("initialize", s, "", "", 0, 0, -1, Unwritten))
       ELSE /\ record_values' = [record_values EXCEPT ![s] = ZeroRecord]
            /\ Observe(Call("initialize", s, "", "", 0, 0, 1, Unwritten))

(***************************************************************************)
(* libevtx_record_values_free                                              *)
(***************************************************************************)
\* a faulty free that keeps the record when its document cannot be freed
FreeUnlessDocumentFails(s, free_ok) ==
    /\ chunk_data' = << >>
    /\ IF record_values[s] = NULL
       THEN /\ UNCHANGED <<record_values, xml_documents>>
            /\ Observe(Call("free", s, "", "", 0, 0, 1, Unwritten))
       ELSE LET tree == record_values[s].xml_document
            IN IF tree # 0 /\ ~free_ok
               THEN /\ UNCHANGED <<record_values, xml_documents>>
                    /\ Observe(Call("free", s, "", "", 0, 0, -1, Unwritten))
               ELSE /\ record_values' = [record_values EXCEPT ![s] = NULL]
                    /\ xml_documents' =
                         IF tree = 0
                         THEN xml_documents
                         ELSE [xml_documents EXCEPT ![tree].state = "freed"]
                    /\ Observe(Call("free", s, "", "", 0, 0, 1, Unwritten))

Free(s, free_ok) ==
    /\ chunk_data' = << >>
    /\ IF record_values[s] = NULL
       THEN /\ UNCHANGED <<record_values, xml_documents>>
            /\ Observe(Call("free", s, "", "", 0, 0, 1, Unwritten))
       ELSE LET tree == record_values[s].xml_document
            IN /\ record_values' = [record_values EXCEPT ![s] = NULL]
               /\ IF tree = 0
                  THEN /\ UNCHANGED xml_documents
                       /\ Observe(Call("free", s, "", "", 0, 0, 1, Unwritten))
                  ELSE IF free_ok
                  THEN /\ xml_documents' =
                            [xml_documents EXCEPT ![tree].state = "freed"]
                       /\ Observe(Call("free", s, "", "", 0, 0, 1, Unwritten))
                  ELSE \* libfwevt_xml_document_free failed: the document
                       \* is lost with the record
                       /\ UNCHANGED xml_documents
                       /\ Observe(Call("free", s, "", "", 0, 0, -1, Unwritten))

(***************************************************************************)
(* libevtx_record_values_clone                                             *)
(***************************************************************************)
\* a faulty clone that copies the source and leaves the destination
\* without an XML document
clone_record_without_document(source, tree) ==
    [source EXCEPT !.xml_document = 0]

\* memory_copy of the source, then the destination's own XML document
clone_record(source, tree) == [source EXCEPT !.xml_document = tree]

Clone(d, s, alloc_ok, clone_ok) ==
    /\ chunk_data' = << >>
    /\ IF record_values[d] # NULL
       THEN \* destination value already set
            /\ UNCHANGED <<record_values, xml_documents>>
            /\ Observe(Call("clone", d, "", "", s, 0, -1, Unwritten))
       ELSE IF record_values[s] = NULL
       THEN \* a NULL source gives a NULL destination
            /\ UNCHANGED <<record_values, xml_documents>>
            /\ Observe(Call("clone", d, "", "", s, 0, 1, Unwritten))
       ELSE IF ~alloc_ok
       THEN /\ UNCHANGED <<record_values, xml_documents>>
            /\ Observe(Call("clone", d, "", "", s, 0, -1, Unwritten))
       ELSE IF record_values[s].xml_document = 0
       THEN /\ record_values' =
                 [record_values EXCEPT ![d] = clone_record(record_values[s], 0)]
            /\ UNCHANGED xml_documents
            /\ Observe(Call("clone", d, "", "", s, 0, 1, Unwritten))
       ELSE IF ~clone_ok \/ FreshTrees = {}
       THEN \* libfwevt_xml_document_clone failed: the destination is freed
            /\ UNCHANGED <<record_values, xml_documents>>
            /\ Observe(Call("clone", d, "", "", s, 0, -1, Unwritten))
       ELSE /\ record_values' =
                 [record_values EXCEPT
                    ![d] = clone_record(record_values[s], NewTree)]
            /\ xml_documents' =
                 [xml_documents EXCEPT
                    ![NewTree] =
                       [state |-> "live",
                        doc |-> xml_documents[record_values[s].xml_document].doc]]
            /\ Observe(Call("clone", d, "", "", s, 0, 1, Unwritten))

(***************************************************************************)
(* libevtx_record_values_read_header                                       *)
(***************************************************************************)
\* memory_compare of the four signature bytes
SignatureMatches(chunk, offset) ==
    \A i \in 0..3 : chunk[offset + i + 1] = evtx_event_record_signature[i + 1]

\* a faulty size range check that has lost its upper bound
SizeOutOfBoundsNoUpperBound(data_size, event_record_data_size) ==
    SizeLess(data_size, HDR)

\* the size range check on the stored data_size
SizeOutOfBounds(data_size, event_record_data_size) ==
    \/ SizeLess(data_size, HDR)
    \/ SizeLess(event_record_data_size - 4, data_size)

\* a faulty store that takes data_size from the copy of the size, when the
\* buffer holds a copy behind the record
StoreHeaderWithCopyOfSize(rec, chunk, offset) ==
    LET size == byte_stream_copy_to_uint32_little_endian(chunk, offset + 4)
        has_copy == size >= HDR + 4 /\ offset + size <= Len(chunk)
    IN [rec EXCEPT
          !.chunk_data_offset = offset,
          !.data_size =
              IF has_copy
              THEN byte_stream_copy_to_uint32_little_endian(
                       chunk, offset + size - 4)
              ELSE size,
          !.identifier =
              byte_stream_copy_to_uint64_little_endian(chunk, offset + 8),
          !.written_time =
              byte_stream_copy_to_uint64_little_endian(chunk, offset + 16)]

\* the header fields, stored on the record
StoreHeader(rec, chunk, offset) ==
    [rec EXCEPT
       !.chunk_data_offset = offset,
       !.data_size = byte_stream_copy_to_uint32_little_endian(chunk, offset + 4),
       !.identifier = byte_stream_copy_to_uint64_little_endian(chunk, offset + 8),
       !.written_time =
           byte_stream_copy_to_uint64_little_endian(chunk, offset + 16)]

\* the indexes of the n bytes from C offset at
Bytes(at, n) == at .. (at + n - 1)

\* the bytes of the copy of the size, read behind the record data
CopyOfSizeBytes(chunk_data_offset, data_size) ==
    Bytes(chunk_data_offset + data_size - 4, 4)

\* the result, the record and the chunk bytes read after read_header on a
\* non-NULL record
read_header(rec, chunk, chunk_data_size, chunk_data_offset) ==
    IF ExceedsSSizeMax(chunk_data_size)
    THEN [ret |-> -1, rec |-> rec, reads |-> {}]
    ELSE IF ~SizeLess(chunk_data_offset, chunk_data_size)
    THEN [ret |-> -1, rec |-> rec, reads |-> {}]
    ELSE LET event_record_data_size == chunk_data_size - chunk_data_offset
         IN IF SizeLess(event_record_data_size, HDR + 4)
            THEN [ret |-> -1, rec |-> rec, reads |-> {}]
            ELSE IF ~SignatureMatches(chunk, chunk_data_offset)
            THEN [ret |-> -1, rec |-> rec,
                  reads |-> Bytes(chunk_data_offset, 4)]
            ELSE LET stored == StoreHeader(rec, chunk, chunk_data_offset)
                 IN IF SizeOutOfBounds(stored.data_size, event_record_data_size)
                    THEN [ret |-> -1, rec |-> stored,
                          reads |-> Bytes(chunk_data_offset, HDR)]
                    ELSE [ret |-> 1, rec |-> stored,
                          reads |-> Bytes(chunk_data_offset, HDR)
                                    \cup CopyOfSizeBytes(chunk_data_offset,
                                                         stored.data_size)]

ReadHeader(s, chunk, chunk_data_offset) ==
    /\ UNCHANGED xml_documents
    /\ chunk_data' = chunk
    /\ IF record_values[s] = NULL
       THEN /\ UNCHANGED record_values
            /\ Observe(Call("read_header", s, "", "", chunk_data_offset,
                            Len(chunk), -1, Unwritten))
       ELSE LET res == read_header(record_values[s], chunk, Len(chunk),
                                   chunk_data_offset)
            IN /\ record_values' = [record_values EXCEPT ![s] = res.rec]
               /\ ObserveReads(Call("read_header", s, "", "", chunk_data_offset,
                                    Len(chunk), res.ret, Unwritten),
                               ChunkReads(res.reads, 0, 0))

(***************************************************************************)
(* libevtx_record_values_read_xml_document                                 *)
(***************************************************************************)
\* the offset and the size of the binary XML of the record, as computed
\* from the stored header fields
XmlDataOffset(rec) == rec.chunk_data_offset + HDR

XmlDataSize(rec) == rec.data_size - (HDR + 4)

\* the bounds checks before the document is created
XmlBoundsOk(rec, chunk_data_size) ==
    /\ ~ExceedsSSizeMax(chunk_data_size)
    /\ SizeLess(rec.chunk_data_offset, chunk_data_size)
    /\ SizeLess(XmlDataOffset(rec), chunk_data_size)
    /\ SizeLeq(XmlDataOffset(rec) + XmlDataSize(rec), chunk_data_size)

\* the part of the chunk buffer handed to libfwevt_xml_document_read: the
\* buffer with its whole size, and the offset of the binary XML
xml_document_read(rec, chunk_data_size) ==
    ChunkReads({}, XmlDataOffset(rec), chunk_data_size)

\* a faulty read_xml_document that keeps the document it created when the
\* decoder fails
ReadXmlDocumentKeepingDocument(s, chunk, decoded) ==
    /\ chunk_data' = chunk
    /\ IF record_values[s] = NULL
       THEN /\ UNCHANGED <<record_values, xml_documents>>
            /\ Observe(Call("read_xml_document", s, "", "", 0, Len(chunk),
                            -1, Unwritten))
       ELSE IF record_values[s].xml_document # 0
       THEN /\ UNCHANGED <<record_values, xml_documents>>
            /\ Observe(Call("read_xml_document", s, "", "", 0, Len(chunk),
                            -1, Unwritten))
       ELSE IF ~XmlBoundsOk(record_values[s], Len(chunk))
       THEN /\ UNCHANGED <<record_values, xml_documents>>
            /\ Observe(Call("read_xml_document", s, "", "", 0, Len(chunk),
                            -1, Unwritten))
       ELSE IF FreshTrees = {}
       THEN /\ UNCHANGED <<record_values, xml_documents>>
            /\ Observe(Call("read_xml_document", s, "", "", 0, Len(chunk),
                            -1, Unwritten))
       ELSE /\ record_values' =
                 [record_values EXCEPT ![s].xml_document = NewTree]
            /\ xml_documents' =
                 [xml_documents EXCEPT
                    ![NewTree] = [state |-> "live", doc |-> decoded]]
            /\ ObserveReads(Call("read_xml_document", s, "", "", 0, Len(chunk),
                                 IF decoded = 0 THEN -1 ELSE 1, Unwritten),
                            xml_document_read(record_values[s], Len(chunk)))

\* decoded: the document libfwevt_xml_document_read builds from the bytes,
\* 0 when it fails
ReadXmlDocument(s, chunk, decoded) ==
    /\ chunk_data' = chunk
    /\ IF record_values[s] = NULL
       THEN /\ UNCHANGED <<record_values, xml_documents>>
            /\ Observe(Call("read_xml_document", s, "", "", 0, Len(chunk),
                            -1, Unwritten))
       ELSE IF record_values[s].xml_document # 0
       THEN \* XML document already set
            /\ UNCHANGED <<record_values, xml_documents>>
            /\ Observe(Call("read_xml_document", s, "", "", 0, Len(chunk),
                            -1, Unwritten))
       ELSE IF ~XmlBoundsOk(record_values[s], Len(chunk))
       THEN /\ UNCHANGED <<record_values, xml_documents>>
            /\ Observe(Call("read_xml_document", s, "", "", 0, Len(chunk),
                            -1, Unwritten))
       ELSE IF FreshTrees = {}
       THEN \* libfwevt_xml_document_initialize failed
            /\ UNCHANGED <<record_values, xml_documents>>
            /\ Observe(Call("read_xml_document", s, "", "", 0, Len(chunk),
                            -1, Unwritten))
       ELSE IF decoded = 0
       THEN \* the document could not be read: on_error frees it
            /\ UNCHANGED <<record_values, xml_documents>>
            /\ ObserveReads(Call("read_xml_document", s, "", "", 0, Len(chunk),
                                 -1, Unwritten),
                            xml_document_read(record_values[s], Len(chunk)))
       ELSE /\ record_values' =
                 [record_values EXCEPT ![s].xml_document = NewTree]
            /\ xml_documents' =
                 [xml_documents EXCEPT
                    ![NewTree] = [state |-> "live", doc |-> decoded]]
            /\ ObserveReads(Call("read_xml_document", s, "", "", 0, Len(chunk),
                                 1, Unwritten),
                            xml_document_read(record_values[s], Len(chunk)))

(***************************************************************************)
(* The accessors.  Each is the set of its possible outcomes (result,       *)
(* output parameter, record afterwards) on a non-NULL record; the set has  *)
(* more than one member only when a memoised handle is read after its      *)
(* document was freed.                                                     *)
(***************************************************************************)
\* the bitwise OR of two naturals
RECURSIVE BitOr(_, _)
BitOr(a, b) ==
    IF a = 0 THEN b
    ELSE IF b = 0 THEN a
    ELSE (IF a % 2 = 1 \/ b % 2 = 1 THEN 1 ELSE 0)
         + 2 * BitOr(a \div 2, b \div 2)

\* a faulty shift by 8 bits instead of 16
ShiftLeft8(qualifiers) == (qualifiers % 16777216) * 256

\* qualifiers <<= 16 on a uint32_t
ShiftLeft16(qualifiers) == (qualifiers % 65536) * 65536

\* the walk Event/System/<name> of get_event_identifier and get_event_level,
\* where a missing element is an error
WalkSystemElement(doc, name) ==
    LET root == libfwevt_xml_document_get_root_xml_tag(doc)
        system == libfwevt_xml_tag_get_element_by_utf8_name(doc, root, NameSystem)
    IN IF system.ret # 1 THEN [ret |-> -1, tag |-> 0]
       ELSE LET element == libfwevt_xml_tag_get_element_by_utf8_name(
                               doc, system.tag, name)
            IN IF element.ret # 1 THEN [ret |-> -1, tag |-> 0] ELSE element

\* the Qualifiers step of get_event_identifier, after *event_identifier
\* was set from the EventID value
ApplyQualifiers(rec, doc, eventid_xml_tag, event_identifier) ==
    LET found == libfwevt_xml_tag_get_attribute_by_utf8_name(
                     doc, eventid_xml_tag, NameQualifiers)
    IN IF found.ret = -1
       THEN Outcome(-1, Out(<<event_identifier>>), rec)
       ELSE IF found.ret = 0
       THEN Outcome(1, Out(<<event_identifier>>), rec)
       ELSE LET qualifiers == libfvalue_value_copy_to_32bit(doc[found.tag].val)
            IN IF qualifiers.ret # 1
               THEN Outcome(-1, Out(<<event_identifier>>), rec)
               ELSE Outcome(1, Out(<<BitOr(event_identifier,
                                          ShiftLeft16(qualifiers.out))>>), rec)

\* libevtx_record_values_get_event_identifier
get_event_identifier(rec) ==
    IF rec.xml_document = 0
    THEN {Outcome(-1, Unwritten, rec)}
    ELSE LET doc == DocOf(rec.xml_document)
             walk == rec.event_identifier_value = NullHandle
             found == WalkSystemElement(doc, NameEventID)
         IN IF walk /\ found.ret # 1
            THEN {Outcome(-1, Unwritten, rec)}
            ELSE LET eventid_xml_tag == IF walk THEN found.tag ELSE 0
                     rec1 == IF walk
                             THEN [rec EXCEPT !.event_identifier_value =
                                      Handle(rec.xml_document, found.tag)]
                             ELSE rec
                 IN { LET copied == libfvalue_value_copy_to_32bit(val)
                      IN IF copied.ret # 1
                         THEN Outcome(-1, Unwritten, rec1)
                         ELSE ApplyQualifiers(rec1, doc, eventid_xml_tag,
                                              copied.out)
                      : val \in HandleValues(rec1.event_identifier_value) }

\* a faulty get_event_level that stores the handle of the Level value in
\* event_identifier_value as well
get_event_level_into_identifier(rec) ==
    IF rec.xml_document = 0
    THEN {Outcome(-1, Unwritten, rec)}
    ELSE LET doc == DocOf(rec.xml_document)
             walk == rec.level_value = NullHandle
             found == WalkSystemElement(doc, NameLevel)
         IN IF walk /\ found.ret # 1
            THEN {Outcome(-1, Unwritten, rec)}
            ELSE LET rec1 == IF walk
                             THEN [rec EXCEPT
                                     !.level_value =
                                         Handle(rec.xml_document, found.tag),
                                     !.event_identifier_value =
                                         Handle(rec.xml_document, found.tag)]
                             ELSE rec
                 IN { LET copied == libfvalue_value_copy_to_8bit(val)
                      IN IF copied.ret # 1
                         THEN Outcome(-1, Unwritten, rec1)
                         ELSE Outcome(1, Out(<<copied.out>>), rec1)
                      : val \in HandleValues(rec1.level_value) }

\* libevtx_record_values_get_event_level
get_event_level(rec) ==
    IF rec.xml_document = 0
    THEN {Outcome(-1, Unwritten, rec)}
    ELSE LET doc == DocOf(rec.xml_document)
             walk == rec.level_value = NullHandle
             found == WalkSystemElement(doc, NameLevel)
         IN IF walk /\ found.ret # 1
            THEN {Outcome(-1, Unwritten, rec)}
            ELSE LET rec1 == IF walk
                             THEN [rec EXCEPT !.level_value =
                                      Handle(rec.xml_document, found.tag)]
                             ELSE rec
                 IN { LET copied == libfvalue_value_copy_to_8bit(val)
                      IN IF copied.ret # 1
                         THEN Outcome(-1, Unwritten, rec1)
                         ELSE Outcome(1, Out(<<copied.out>>), rec1)
                      : val \in HandleValues(rec1.level_value) }

\* the last step of the string accessors: the size of the text of a value
\* (kind "size") or its copy into a buffer of buffer_size code units
StringOf(val, enc, kind, buffer_size) ==
    IF val.t = "none"
    THEN [ret |-> -1, out |-> Unwritten]
    ELSE IF kind = "size"
    THEN [ret |-> 1, out |-> Out(<<StringSize(enc, Render(val))>>)]
    ELSE LET copied == CopyString(enc, Render(val), buffer_size)
         IN IF copied.ret # 1 THEN [ret |-> -1, out |-> Unwritten]
            ELSE [ret |-> 1, out |-> Out(copied.out)]

\* a faulty walk that prefers the attribute Name to EventSourceName
WalkProviderNameFirst(doc) ==
    LET root == libfwevt_xml_document_get_root_xml_tag(doc)
        system == libfwevt_xml_tag_get_element_by_utf8_name(doc, root, NameSystem)
    IN IF system.ret # 1 THEN system
       ELSE LET provider == libfwevt_xml_tag_get_element_by_utf8_name(
                                doc, system.tag, NameProvider)
            IN IF provider.ret # 1 THEN provider
               ELSE LET name == libfwevt_xml_tag_get_attribute_by_utf8_name(
                                    doc, provider.tag, NameName)
                    IN IF name.ret # 0 THEN name
                       ELSE libfwevt_xml_tag_get_attribute_by_utf8_name(
                                doc, provider.tag, NameEventSourceName)

\* the walk Event/System/Provider and its attribute EventSourceName, or
\* else Name; ret 0 when a step is missing
WalkProviderName(doc) ==
    LET root == libfwevt_xml_document_get_root_xml_tag(doc)
        system == libfwevt_xml_tag_get_element_by_utf8_name(doc, root, NameSystem)
    IN IF system.ret # 1 THEN system
       ELSE LET provider == libfwevt_xml_tag_get_element_by_utf8_name(
                                doc, system.tag, NameProvider)
            IN IF provider.ret # 1 THEN provider
               ELSE LET source == libfwevt_xml_tag_get_attribute_by_utf8_name(
                                      doc, provider.tag, NameEventSourceName)
                    IN IF source.ret # 0 THEN source
                       ELSE libfwevt_xml_tag_get_attribute_by_utf8_name(
                                doc, provider.tag, NameName)

\* libevtx_record_values_get_utf8_source_name_size, ..._utf8_source_name,
\* ..._utf16_source_name_size, ..._utf16_source_name
get_source_name(rec, enc, kind, buffer_size) ==
    IF rec.xml_document = 0
    THEN {Outcome(-1, Unwritten, rec)}
    ELSE LET doc == DocOf(rec.xml_document)
             walk == rec.provider_name_value = NullHandle
             found == WalkProviderName(doc)
         IN IF walk /\ found.ret # 1
            THEN {Outcome(found.ret, Unwritten, rec)}
            ELSE LET rec1 == IF walk
                             THEN [rec EXCEPT !.provider_name_value =
                                      Handle(rec.xml_document, found.tag)]
                             ELSE rec
                 IN { LET str == StringOf(val, enc, kind, buffer_size)
                      IN Outcome(str.ret, str.out, rec1)
                      : val \in HandleValues(rec1.provider_name_value) }

\* the walk Event/System/Computer; ret 0 when a step is missing
WalkComputer(doc) ==
    LET root == libfwevt_xml_document_get_root_xml_tag(doc)
        system == libfwevt_xml_tag_get_element_by_utf8_name(doc, root, NameSystem)
    IN IF system.ret # 1 THEN system
       ELSE libfwevt_xml_tag_get_element_by_utf8_name(
                doc, system.tag, NameComputer)

\* libevtx_record_values_get_utf8_computer_name_size, ..._utf8_computer_name,
\* ..._utf16_computer_name_size, ..._utf16_computer_name
get_computer_name(rec, enc, kind, buffer_size) ==
    IF rec.xml_document = 0
    THEN {Outcome(-1, Unwritten, rec)}
    ELSE LET doc == DocOf(rec.xml_document)
             walk == rec.computer_value = NullHandle
             found == WalkComputer(doc)
         IN IF walk /\ found.ret # 1
            THEN {Outcome(found.ret, Unwritten, rec)}
            ELSE LET rec1 == IF walk
                             THEN [rec EXCEPT !.computer_value =
                                      Handle(rec.xml_document, found.tag)]
                             ELSE rec
                 IN { LET str == StringOf(val, enc, kind, buffer_size)
                      IN Outcome(str.ret, str.out, rec1)
                      : val \in HandleValues(rec1.computer_value) }

\* a faulty lookup that takes the UserData element itself as the container
\* and never looks for EventData
get_user_data_xml_tag(rec) ==
    LET doc == DocOf(rec.xml_document)
        root == libfwevt_xml_document_get_root_xml_tag(doc)
        user_data == libfwevt_xml_tag_get_element_by_utf8_name(
                         doc, root, NameUserData)
    IN IF user_data.ret # 1
       THEN [ret |-> user_data.ret, rec |-> rec]
       ELSE [ret |-> 1,
             rec |-> [rec EXCEPT
                        !.event_data_xml_tag =
                            Handle(rec.xml_document, user_data.tag),
                        !.event_data_type =
                            LIBEVTX_RECORD_VALUES_EVENT_DATA_TYPE_USER_DATA]]

\* libevtx_record_values_get_event_data_xml_tag, called with the record's
\* own event_data_xml_tag and event_data_type as outputs: the result and
\* the record afterwards
get_event_data_xml_tag(rec) ==
    LET doc == DocOf(rec.xml_document)
        root == libfwevt_xml_document_get_root_xml_tag(doc)
        event_data == libfwevt_xml_tag_get_element_by_utf8_name(
                          doc, root, NameEventData)
    IN IF event_data.ret = -1
       THEN [ret |-> -1, rec |-> rec]
       ELSE IF event_data.ret # 0
       THEN [ret |-> event_data.ret,
             rec |-> [rec EXCEPT
                        !.event_data_xml_tag =
                            Handle(rec.xml_document, event_data.tag),
                        !.event_data_type = LIBEVTX_RECORD_VALUES_EVENT_DATA_TYPE_EVENT_DATA]]
       ELSE LET user_data == libfwevt_xml_tag_get_element_by_utf8_name(
                                 doc, root, NameUserData)
            IN IF user_data.ret = -1
               THEN [ret |-> -1, rec |-> rec]
               ELSE IF user_data.ret = 0
               THEN [ret |-> 0, rec |-> rec]
               ELSE IF libfwevt_xml_tag_get_number_of_elements(
                           doc, user_data.tag) # 1
               THEN [ret |-> -1, rec |-> rec]
               ELSE LET first == libfwevt_xml_tag_get_element_by_index(
                                     doc, user_data.tag, 0)
                    IN IF first.ret # 1
                       THEN [ret |-> -1, rec |-> rec]
                       ELSE [ret |-> user_data.ret,
                             rec |-> [rec EXCEPT
                                        !.event_data_xml_tag =
                                            Handle(rec.xml_document, first.tag),
                                        !.event_data_type =
                                            LIBEVTX_RECORD_VALUES_EVENT_DATA_TYPE_USER_DATA]]

\* whether the element is named Data: its name size is 5 and its first
\* four characters compare equal to "Data"
IsDataElement(doc, tag) ==
    /\ libfwevt_xml_tag_get_utf8_name_size(doc, tag) = 5
    /\ SubSeq(UTF8(doc[tag].name), 1, 4) = NameData

\* a faulty count that takes every element, whatever its name
CountAllElements(doc, tag, element_index, number_of_elements, count) ==
    [ret |-> 1, count |-> number_of_elements]

\* the loop of get_number_of_strings over the elements from element_index:
\* the result and *number_of_strings at the return
RECURSIVE CountDataElements(_, _, _, _, _)
CountDataElements(doc, tag, element_index, number_of_elements, count) ==
    IF element_index >= number_of_elements
    THEN [ret |-> 1, count |-> count]
    ELSE LET element == libfwevt_xml_tag_get_element_by_index(
                            doc, tag, element_index)
         IN IF element.ret # 1
            THEN [ret |-> -1, count |-> count]
            ELSE IF IsDataElement(doc, element.tag)
            THEN IF element_index # count
                 THEN \* non-contiguous Data elements
                      [ret |-> -1, count |-> count]
                 ELSE CountDataElements(doc, tag, element_index + 1,
                                        number_of_elements, count + 1)
            ELSE CountDataElements(doc, tag, element_index + 1,
                                   number_of_elements, count)

\* a faulty get_number_of_strings that counts the Data elements of a
\* UserData container too
get_number_of_data_elements(rec) ==
    IF rec.xml_document = 0
    THEN {Outcome(-1, Unwritten, rec)}
    ELSE LET found == IF rec.event_data_xml_tag = NullHandle
                      THEN get_event_data_xml_tag(rec)
                      ELSE [ret |-> 1, rec |-> rec]
             rec1 == found.rec
             tag == rec1.event_data_xml_tag
         IN IF found.ret = -1
            THEN {Outcome(-1, Out(<<0>>), rec1)}
            ELSE IF tag = NullHandle
            THEN {Outcome(1, Out(<<0>>), rec1)}
            ELSE { LET counted ==
                           CountDataElements(
                               doc, tag.node, 0,
                               libfwevt_xml_tag_get_number_of_elements(
                                   doc, tag.node), 0)
                   IN Outcome(counted.ret, Out(<<counted.count>>), rec1)
                   : doc \in ReadDocs(tag.tree) }

\* libevtx_record_values_get_number_of_strings
get_number_of_strings(rec) ==
    IF rec.xml_document = 0
    THEN {Outcome(-1, Unwritten, rec)}
    ELSE LET found == IF rec.event_data_xml_tag = NullHandle
                      THEN get_event_data_xml_tag(rec)
                      ELSE [ret |-> 1, rec |-> rec]
             rec1 == found.rec
             tag == rec1.event_data_xml_tag
         IN IF found.ret = -1
            THEN {Outcome(-1, Out(<<0>>), rec1)}
            ELSE IF tag = NullHandle
            THEN {Outcome(1, Out(<<0>>), rec1)}
            ELSE { LET number_of_elements ==
                           libfwevt_xml_tag_get_number_of_elements(doc, tag.node)
                       counted == CountDataElements(doc, tag.node, 0,
                                                    number_of_elements, 0)
                   IN IF rec1.event_data_type = LIBEVTX_RECORD_VALUES_EVENT_DATA_TYPE_USER_DATA
                      THEN Outcome(1, Out(<<number_of_elements>>), rec1)
                      ELSE Outcome(counted.ret, Out(<<counted.count>>), rec1)
                   : doc \in ReadDocs(tag.tree) }

\* libevtx_record_values_get_utf8_string_size, ..._utf8_string,
\* ..._utf16_string_size, ..._utf16_string
get_string(rec, enc, kind, string_index, buffer_size) ==
    IF rec.xml_document = 0
    THEN {Outcome(-1, Unwritten, rec)}
    ELSE LET found == IF rec.event_data_xml_tag = NullHandle
                      THEN get_event_data_xml_tag(rec)
                      ELSE [ret |-> 1, rec |-> rec]
             rec1 == found.rec
             tag == rec1.event_data_xml_tag
         IN IF found.ret # 1
            THEN {Outcome(-1, Unwritten, rec1)}
            ELSE { LET element == libfwevt_xml_tag_get_element_by_index(
                                      doc, tag.node, string_index)
                       str == StringOf(doc[element.tag].val, enc, kind,
                                       buffer_size)
                   IN IF element.ret # 1
                      THEN Outcome(-1, Unwritten, rec1)
                      ELSE Outcome(str.ret, str.out, rec1)
                   : doc \in ReadDocs(tag.tree) }

\* a faulty walk for which a missing step is an error
WalkBinaryDataOrFail(doc) ==
    LET root == libfwevt_xml_document_get_root_xml_tag(doc)
        event_data == libfwevt_xml_tag_get_element_by_utf8_name(
                          doc, root, NameEventData)
    IN IF event_data.ret # 1 THEN [ret |-> -1, tag |-> 0]
       ELSE LET binary_data == libfwevt_xml_tag_get_element_by_utf8_name(
                                   doc, event_data.tag, NameBinaryData)
            IN IF binary_data.ret # 1 THEN [ret |-> -1, tag |-> 0]
               ELSE binary_data

\* the walk Event/EventData/BinaryData; ret 0 when a step is missing
WalkBinaryData(doc) ==
    LET root == libfwevt_xml_document_get_root_xml_tag(doc)
        event_data == libfwevt_xml_tag_get_element_by_utf8_name(
                          doc, root, NameEventData)
    IN IF event_data.ret # 1 THEN event_data
       ELSE libfwevt_xml_tag_get_element_by_utf8_name(
                doc, event_data.tag, NameBinaryData)

\* libfvalue_value_get_data_size (kind "size") and libfvalue_value_copy_data
DataOf(val, kind, buffer_size) ==
    IF val.t = "none"
    THEN [ret |-> -1, out |-> Unwritten]
    ELSE IF kind = "size"
    THEN [ret |-> 1, out |-> Out(<<Len(val.s)>>)]
    ELSE IF buffer_size < Len(val.s)
    THEN [ret |-> -1, out |-> Unwritten]
    ELSE [ret |-> 1, out |-> Out(val.s)]

\* libevtx_record_values_get_data_size, libevtx_record_values_get_data
get_data(rec, kind, buffer_size) ==
    IF rec.xml_document = 0
    THEN {Outcome(-1, Unwritten, rec)}
    ELSE LET doc == DocOf(rec.xml_document)
             walk == rec.binary_data_value = NullHandle
             found == WalkBinaryData(doc)
         IN IF walk /\ found.ret # 1
            THEN {Outcome(found.ret, Unwritten, rec)}
            ELSE LET rec1 == IF walk
                             THEN [rec EXCEPT !.binary_data_value =
                                      Handle(rec.xml_document, found.tag)]
                             ELSE rec
                 IN { LET data == DataOf(val, kind, buffer_size)
                      IN Outcome(data.ret, data.out, rec1)
                      : val \in HandleValues(rec1.binary_data_value) }

\* a faulty variant that takes a record without document for one without
\* text, and returns 0
get_xml_string_without_document(rec, enc, kind, buffer_size) ==
    IF rec.xml_document = 0
    THEN {Outcome(0, Unwritten, rec)}
    ELSE LET doc == DocOf(rec.xml_document)
             root == libfwevt_xml_document_get_root_xml_tag(doc)
             text == XmlText(doc, root)
         IN IF kind = "size"
            THEN {Outcome(1, Out(<<StringSize(enc, text)>>), rec)}
            ELSE LET copied == CopyString(enc, text, buffer_size)
                 IN IF copied.ret # 1
                    THEN {Outcome(-1, Unwritten, rec)}
                    ELSE {Outcome(1, Out(copied.out), rec)}

\* libevtx_record_values_get_utf8_xml_string_size, ..._utf8_xml_string,
\* ..._utf16_xml_string_size, ..._utf16_xml_string
get_xml_string(rec, enc, kind, buffer_size) ==
    IF rec.xml_document = 0
    THEN {Outcome(-1, Unwritten, rec)}
    ELSE LET doc == DocOf(rec.xml_document)
             root == libfwevt_xml_document_get_root_xml_tag(doc)
             text == XmlText(doc, root)
         IN IF kind = "size"
            THEN {Outcome(1, Out(<<StringSize(enc, text)>>), rec)}
            ELSE LET copied == CopyString(enc, text, buffer_size)
                 IN IF copied.ret # 1
                    THEN {Outcome(-1, Unwritten, rec)}
                    ELSE {Outcome(1, Out(copied.out), rec)}

(***************************************************************************)
(* The walk from the root.  An accessor of a memoised field walks from the *)
(* root of the document when the record has a document and the handle of   *)
(* the field is still NULL.                                                *)
(***************************************************************************)
MemoisingOps ==
    { "event_identifier", "event_level", "source_name", "computer_name",
      "number_of_strings", "string", "data" }

\* the memoised field of the record an accessor resolves
FieldOf(op) ==
    CASE op = "event_identifier" -> "event_identifier_value"
      [] op = "event_level" -> "level_value"
      [] op = "source_name" -> "provider_name_value"
      [] op = "computer_name" -> "computer_value"
      [] op \in {"number_of_strings", "string"} -> "event_data_xml_tag"
      [] op = "data" -> "binary_data_value"

WalksFromRoot(op, rec) ==
    /\ rec.xml_document # 0
    /\ CASE op = "event_identifier" -> rec.event_identifier_value = NullHandle
         [] op = "event_level" -> rec.level_value = NullHandle
         [] op = "source_name" -> rec.provider_name_value = NullHandle
         [] op = "computer_name" -> rec.computer_value = NullHandle
         [] op \in {"number_of_strings", "string"} ->
                rec.event_data_xml_tag = NullHandle
         [] op = "data" -> rec.binary_data_value = NullHandle

(***************************************************************************)
(* The accessor calls.  A call on a NULL record is an argument error.      *)
(***************************************************************************)
Access(s, op, enc, kind, index, size, outcomes) ==
    /\ UNCHANGED xml_documents
    /\ chunk_data' = << >>
    /\ IF record_values[s] = NULL
       THEN /\ UNCHANGED record_values
            /\ Observe(Call(op, s, enc, kind, index, size, -1, Unwritten))
       ELSE \E o \in outcomes :
               /\ record_values' = [record_values EXCEPT ![s] = o.rec]
               /\ Observe(Call(op, s, enc, kind, index, size, o.ret, o.out))

GetEventIdentifier(s) ==
    Access(s, "event_identifier", "", "", 0, 0,
           get_event_identifier(record_values[s]))

GetEventLevel(s) ==
    Access(s, "event_level", "", "", 0, 0, get_event_level(record_values[s]))

GetSourceName(s, enc, kind, size) ==
    Access(s, "source_name", enc, kind, 0, size,
           get_source_name(record_values[s], enc, kind, size))

GetComputerName(s, enc, kind, size) ==
    Access(s, "computer_name", enc, kind, 0, size,
           get_computer_name(record_values[s], enc, kind, size))

GetNumberOfStrings(s) ==
    Access(s, "number_of_strings", "", "", 0, 0,
           get_number_of_strings(record_values[s]))

GetString(s, enc, kind, index, size) ==
    Access(s, "string", enc, kind, index, size,
           get_string(record_values[s], enc, kind, index, size))

GetData(s, kind, size) ==
    Access(s, "data", "", kind, 0, size,
           get_data(record_values[s], kind, size))

GetXmlString(s, enc, kind, size) ==
    Access(s, "xml_string", enc, kind, 0, size,
           get_xml_string(record_values[s], enc, kind, size))

(***************************************************************************)
(* The inputs of the calls.                                                *)
(***************************************************************************)
\* a chunk buffer of n bytes with a record header at offset o and, when it
\* fits behind the header, the copy of the size at o + size - 4
MkChunk(n, o, signature, size, identifier, written_time, copy_of_size) ==
    LET header == signature \o ToLittleEndian(size, 4)
                  \o ToLittleEndian(identifier, 8)
                  \o ToLittleEndian(written_time, 8)
        with_header == Overlay(Zeros(n), o, header)
    IN IF size >= HDR + 4
       THEN Overlay(with_header, o + size - 4, ToLittleEndian(copy_of_size, 4))
       ELSE with_header

\* size query, or copy into a buffer of one of the sizes
StringArgs(sizes) ==
    {[kind |-> "size", size |-> 0]} \cup {[kind |-> "copy", size |-> b] : b \in sizes}

Accessors(S, encs, sizes, indexes) ==
    \E s \in S :
       \/ GetEventIdentifier(s)
       \/ GetEventLevel(s)
       \/ GetNumberOfStrings(s)
       \/ \E a \in StringArgs(sizes) :
             \/ GetData(s, a.kind, a.size)
             \/ \E enc \in encs :
                   \/ GetSourceName(s, enc, a.kind, a.size)
                   \/ GetComputerName(s, enc, a.kind, a.size)
                   \/ GetXmlString(s, enc, a.kind, a.size)
                   \/ \E i \in indexes : GetString(s, enc, a.kind, i, a.size)

\* a well-formed record of 36 bytes at offset 0 of a chunk of 40 bytes
ValidChunk == MkChunk(40, 0, evtx_event_record_signature, 36, 1, 5, 36)

\* the same chunk with a wrong last signature byte
BadSignatureChunk == MkChunk(40, 0, <<42, 42, 0, 1>>, 36, 1, 5, 36)

(***************************************************************************)
(* Spec: the whole interface on NumSlots records, with few inputs.         *)
(***************************************************************************)
LifeChunks == {ValidChunk, BadSignatureChunk}

\* DocS1 and DocS4
LifeDocs == {1, 4}

Next ==
    \/ \E s \in Slots, alloc_ok \in BOOLEAN : Initialize(s, alloc_ok)
    \/ \E s \in Slots, free_ok \in BOOLEAN : Free(s, free_ok)
    \/ \E d \in Slots, s \in Slots, alloc_ok \in BOOLEAN, clone_ok \in BOOLEAN :
          Clone(d, s, alloc_ok, clone_ok)
    \/ \E s \in Slots, chunk \in LifeChunks : ReadHeader(s, chunk, 0)
    \/ \E s \in Slots, chunk \in LifeChunks, decoded \in LifeDocs \cup {0} :
          ReadXmlDocument(s, chunk, decoded)
    \/ Accessors(Slots, {"utf8"}, {8}, {0})

Spec == Init /\ [][Next]_vars

(***************************************************************************)
(* SpecAccess: one record, every document, every accessor variant.         *)
(***************************************************************************)
BufferSizes == {1, 8, 512}

StringIndexes == 0..3

NextAccess ==
    \/ Initialize(1, TRUE)
    \/ ReadHeader(1, ValidChunk, 0)
    \/ \E decoded \in DocIds \cup {0} : ReadXmlDocument(1, ValidChunk, decoded)
    \/ Accessors({1}, {"utf8", "utf16"}, BufferSizes, StringIndexes)

SpecAccess == Init /\ [][NextAccess]_vars

(***************************************************************************)
(* SpecHeader: one record and read_header on many chunk buffers.           *)
(***************************************************************************)
\* the lengths N of the chunk buffers
HeaderLengths == {27, 28, 32}

HeaderOffsets == {0, 4}

\* the values of the size field: below the header length, the header
\* length, below and at HDR + 4, and above
HeaderSizes == {HDR - 1, HDR, HDR + 3, HDR + 4, HDR + 8}

\* the signature, and the signature with its first or its last byte flipped
HeaderSignatures ==
    {evtx_event_record_signature, <<43, 42, 0, 0>>, <<42, 42, 0, 1>>}

\* (identifier, written_time) pairs
HeaderStamps == {<<1, 5>>, <<2, 7>>}

\* the copies of the size behind a record of the size: equal to it and,
\* for the smallest record with a copy of its own, different
HeaderCopies(size) == IF size = HDR + 4 THEN {size, 0} ELSE {size}

\* the chunk buffers with a record header at offset o
HeaderChunks(o) ==
    UNION { { MkChunk(n, o, signature, size, stamp[1], stamp[2], copy_of_size) :
                n \in HeaderLengths, signature \in HeaderSignatures,
                stamp \in HeaderStamps, copy_of_size \in HeaderCopies(size) } :
            size \in HeaderSizes }

NextHeader ==
    \/ \E alloc_ok \in BOOLEAN : Initialize(1, alloc_ok)
    \/ Free(1, TRUE)
    \/ \E o \in HeaderOffsets : \E chunk \in HeaderChunks(o) :
          ReadHeader(1, chunk, o)

SpecHeader == Init /\ [][NextHeader]_vars

(***************************************************************************)
(* SpecDecode: one record, read_header and read_xml_document on chunk      *)
(* buffers whose records are accepted or rejected by the range check.      *)
(***************************************************************************)
DecodeLengths == {32, 40}

\* the values of the size field: below the header length, the header
\* length, HDR + 4 and above
DecodeSizes == {HDR - 1, HDR, HDR + 4, HDR + 8, HDR + 12}

DecodeChunks(o) ==
    { MkChunk(n, o, evtx_event_record_signature, size, 1, 5, size) :
        n \in DecodeLengths, size \in DecodeSizes }

\* DocS1, or a failure of the decoder
DecodeDocs == {0, 1}

NextDecode ==
    \/ \E alloc_ok \in BOOLEAN : Initialize(1, alloc_ok)
    \/ \E free_ok \in BOOLEAN : Free(1, free_ok)
    \/ \E o \in HeaderOffsets : \E chunk \in DecodeChunks(o) :
          ReadHeader(1, chunk, o)
    \/ \E o \in HeaderOffsets : \E chunk \in DecodeChunks(o) :
          \E decoded \in DecodeDocs : ReadXmlDocument(1, chunk, decoded)

SpecDecode == Init /\ [][NextDecode]_vars

(***************************************************************************)
(* Properties of read_header, under SpecHeader.                            *)
(***************************************************************************)
\* the last call was read_header on an allocated record
ReadHeaderCalled ==
    /\ last.op = "read_header"
    /\ record_values[last.slot] # NULL

\* the size field of the record header at the offset of the last call,
\* when the buffer holds it
SizeFieldPresent == last.index + 8 <= Len(chunk_data)

SizeField == byte_stream_copy_to_uint32_little_endian(chunk_data, last.index + 4)

HeaderFields(rec) ==
    <<rec.chunk_data_offset, rec.data_size, rec.identifier, rec.written_time>>

\* C5: read_header returns -1 for every record whose size field is smaller
\* than HDR + 4, whatever the buffer length.
C5_SizeBelowMinimumRejected ==
    (ReadHeaderCalled /\ SizeFieldPresent /\ SizeField < HDR + 4)
        => last.ret = -1

\* C6: read_header returns 1 whenever o + HDR + 4 <= N, the signature at o
\* matches and HDR + 4 <= size <= N - o, a record that ends at the end of
\* the buffer included.
C6_RecordWithinBufferAccepted ==
    ( /\ ReadHeaderCalled
      /\ last.index + HDR + 4 <= Len(chunk_data)
      /\ SignatureMatches(chunk_data, last.index)
      /\ HDR + 4 <= SizeField
      /\ SizeField <= Len(chunk_data) - last.index )
        => last.ret = 1

\* the buffer with the byte at C offset at replaced by value
WithByte(data, at, value) == [data EXCEPT ![at + 1] = value]

\* the values a flipped signature byte can take
FlippedBytes == {0, 1, 41, 42, 43, 255}

\* C7: whenever read_header returns 1 for a buffer of N bytes and offset o,
\* the four bytes at o are 2A 2A 00 00 and o + size <= N; with any single
\* signature byte changed, or with the buffer cut to o + size - 1 bytes,
\* read_header returns -1.
C7_AcceptedHeaderIsSignedAndInBounds ==
    (ReadHeaderCalled /\ last.ret = 1) =>
        LET o == last.index
            rec == record_values[last.slot]
            cut == o + SizeField - 1
        IN /\ SubSeq(chunk_data, o + 1, o + 4) = <<42, 42, 0, 0>>
           /\ o + SizeField <= Len(chunk_data)
           /\ \A i \in 0..3 :
                 \A b \in FlippedBytes \ {chunk_data[o + i + 1]} :
                    read_header(rec, WithByte(chunk_data, o + i, b),
                                Len(chunk_data), o).ret = -1
           /\ read_header(rec, SubSeq(chunk_data, 1, cut), cut, o).ret = -1

\* read_header has returned 1 for a record at offset 4 that leaves room
\* behind it in the buffer
C7_Witness ==
    /\ ReadHeaderCalled
    /\ last.ret = 1
    /\ last.index = 4
    /\ last.index + SizeField < Len(chunk_data)

\* C8: if read_header returns -1, the record's chunk_data_offset, data_size,
\* identifier and written_time are the same as before the call.
C8_FailedReadHeaderKeepsFields ==
    [][ \A s \in Slots :
          ( /\ last'.op = "read_header"
            /\ last'.slot = s
            /\ last'.ret = -1
            /\ record_values[s] # NULL
            /\ record_values'[s] # NULL )
              => HeaderFields(record_values'[s]) = HeaderFields(record_values[s])
      ]_vars

(***************************************************************************)
(* Properties of the accessors, under SpecAccess.                          *)
(***************************************************************************)
AccessorOps ==
    { "event_identifier", "event_level", "source_name", "computer_name",
      "number_of_strings", "string", "data", "xml_string" }

\* the record of the slot holds a decoded XML document
Decoded(s) ==
    /\ s \in Slots
    /\ record_values[s] # NULL
    /\ record_values[s].xml_document # 0

\* C1: on a record whose XML tree has been decoded, an accessor called
\* twice in succession with the same arguments returns the same status
\* code and the same output value both times.
C1_AccessorsIdempotent ==
    (last.op \in AccessorOps /\ Decoded(last.slot) /\ prev.same)
        => (last.ret = prev.ret /\ last.out = prev.out)

\* C9: when an accessor returns -1 the caller's output parameter has not
\* been written.
C9_FailedAccessorLeavesOutput ==
    (last.op \in AccessorOps /\ last.ret = -1) => ~last.out.w

\* the document has an element Event/System/<name>
HasSystemElement(doc, name) ==
    \E system \in ElementsOf(doc, 1) :
       /\ doc[system].name = NameSystem
       /\ \E element \in ElementsOf(doc, system) : doc[element].name = name

\* the document has an element Event/EventData or Event/UserData
HasEventDataContainer(doc) ==
    \E element \in ElementsOf(doc, 1) :
       doc[element].name \in {NameEventData, NameUserData}

\* C10: on a decoded tree that lacks the element an accessor looks for (no
\* System or EventID for event_identifier, no System or Level for
\* event_level, neither EventData nor UserData for the string accessors)
\* the accessor returns 0, not -1.
C10_AbsentElementReturnsZero ==
    Decoded(last.slot) =>
        LET doc == DocOf(record_values[last.slot].xml_document)
        IN /\ (last.op = "event_identifier"
                   /\ ~HasSystemElement(doc, NameEventID)) => last.ret = 0
           /\ (last.op = "event_level"
                   /\ ~HasSystemElement(doc, NameLevel)) => last.ret = 0
           /\ (last.op = "string"
                   /\ ~HasEventDataContainer(doc)) => last.ret = 0

(***************************************************************************)
(* Properties of clone and free, under Spec.                               *)
(***************************************************************************)
\* the memoised handles of a record
Handles(rec) ==
    { rec.event_identifier_value, rec.level_value, rec.provider_name_value,
      rec.computer_value, rec.event_data_xml_tag, rec.binary_data_value }

\* C2: each non-null memoised handle of a live record refers to a node of
\* a tree that is live and is the record's own tree.
C2_HandlesReferToOwnLiveTree ==
    \A s \in Slots :
       record_values[s] # NULL =>
          \A handle \in Handles(record_values[s]) \ {NullHandle} :
             /\ handle.tree = record_values[s].xml_document
             /\ IsLive(handle.tree)

\* the last call was a successful clone of an allocated source
CloneSucceeded ==
    /\ last.op = "clone"
    /\ last.ret = 1
    /\ record_values[last.index] # NULL

\* C3: after clone returns 1 for a non-null source, the destination holds
\* the header fields of the source, owns a tree distinct from the source's
\* tree when the source has one, and all its memoised handles are null.
C3_CloneCopiesHeaderAndResetsHandles ==
    CloneSucceeded =>
        LET destination == record_values[last.slot]
            source == record_values[last.index]
        IN /\ HeaderFields(destination) = HeaderFields(source)
           /\ source.xml_document # 0 =>
                 /\ destination.xml_document # 0
                 /\ destination.xml_document # source.xml_document
           /\ Handles(destination) = {NullHandle}

\* the status codes and outputs among the outcomes of an accessor
StatusAndOutput(outcomes) == {<<o.ret, o.out>> : o \in outcomes}

\* the memoised handles of the record were resolved in its own tree, as
\* they are on a record reached by read_header, read_xml_document and
\* accessor calls alone
ResolvedInOwnTree(rec) ==
    \A handle \in Handles(rec) \ {NullHandle} : handle.tree = rec.xml_document

\* each accessor gives the same status code and the same output on both
\* records
SameAccessorResults(a, b) ==
    /\ StatusAndOutput(get_event_identifier(a))
          = StatusAndOutput(get_event_identifier(b))
    /\ StatusAndOutput(get_event_level(a)) = StatusAndOutput(get_event_level(b))
    /\ StatusAndOutput(get_number_of_strings(a))
          = StatusAndOutput(get_number_of_strings(b))
    /\ \A args \in StringArgs(BufferSizes) :
          /\ StatusAndOutput(get_data(a, args.kind, args.size))
                = StatusAndOutput(get_data(b, args.kind, args.size))
          /\ \A enc \in {"utf8", "utf16"} :
                /\ StatusAndOutput(get_source_name(a, enc, args.kind, args.size))
                      = StatusAndOutput(
                            get_source_name(b, enc, args.kind, args.size))
                /\ StatusAndOutput(
                       get_computer_name(a, enc, args.kind, args.size))
                      = StatusAndOutput(
                            get_computer_name(b, enc, args.kind, args.size))
                /\ StatusAndOutput(get_xml_string(a, enc, args.kind, args.size))
                      = StatusAndOutput(
                            get_xml_string(b, enc, args.kind, args.size))
                /\ \A i \in StringIndexes :
                      StatusAndOutput(get_string(a, enc, args.kind, i, args.size))
                        = StatusAndOutput(
                              get_string(b, enc, args.kind, i, args.size))

\* C4: right after a successful clone of a source reached by read_header,
\* read_xml_document and accessor calls, each accessor called on the clone
\* returns the same status code and the same output as that accessor
\* called on the source.
C4_CloneEquivalence ==
    (CloneSucceeded /\ ResolvedInOwnTree(record_values[last.index]))
        => SameAccessorResults(record_values[last.slot],
                               record_values[last.index])

\* a source with a decoded tree and a memoised event identifier has been
\* cloned, and the clone's tree is its own
C4_Witness ==
    /\ CloneSucceeded
    /\ ResolvedInOwnTree(record_values[last.index])
    /\ record_values[last.index].xml_document # 0
    /\ record_values[last.index].event_identifier_value # NullHandle
    /\ record_values[last.slot].xml_document
          # record_values[last.index].xml_document

(***************************************************************************)
(* Properties of the results of the accessors, under SpecAccess.           *)
(***************************************************************************)
\* the document of the record of the last call
LastDoc == DocOf(record_values[last.slot].xml_document)

\* the EventID elements under Event/System, and the Qualifiers attributes
\* of an element
EventIDs(doc) ==
    { e \in 1..Len(doc) :
        /\ doc[e].kind = "elem" /\ doc[e].name = NameEventID
        /\ doc[e].parent \in ElementsOf(doc, 1)
        /\ doc[doc[e].parent].name = NameSystem }

QualifiersOf(doc, e) ==
    {a \in AttributesOf(doc, e) : doc[a].name = NameQualifiers}

\* bit k of a natural number, and the number whose bits below 31 are the
\* bits set in a or in b
BitOf(n, k) == (n \div (2 ^ k)) % 2

BitwiseOr(a, b) ==
    LET RECURSIVE Upto(_)
        Upto(k) ==
            IF k < 0 THEN 0
            ELSE (IF BitOf(a, k) + BitOf(b, k) > 0 THEN 2 ^ k ELSE 0)
                 + Upto(k - 1)
    IN Upto(30)

\* get_event_identifier has returned 1 on a decoded record
EventIdentifierReturned ==
    /\ last.op = "event_identifier"
    /\ last.ret = 1
    /\ Decoded(last.slot)

\* C11: a get_event_identifier call that returns 1 yields the EventID value
\* when the EventID element has no Qualifiers attribute, and that value
\* OR-ed with the Qualifiers shifted left 16 bits modulo 2^32 when it has
\* one.
C11_EventIdentifierCombinesQualifiers ==
    EventIdentifierReturned =>
        \E e \in EventIDs(LastDoc) :
           IF QualifiersOf(LastDoc, e) = {}
           THEN last.out = Out(<<LastDoc[e].val.n>>)
           ELSE \E q \in QualifiersOf(LastDoc, e) :
                   \* q * 2^16 modulo 2^32 is (q modulo 2^16) * 2^16
                   last.out =
                      Out(<<BitwiseOr(LastDoc[e].val.n,
                                      (LastDoc[q].val.n % (2 ^ 16)) * 2 ^ 16)>>)

\* get_event_identifier has returned 1 with 0x00011234 for EventID 0x1234
\* with Qualifiers 1
C11_Witness ==
    /\ EventIdentifierReturned
    /\ \E e \in EventIDs(LastDoc) :
          /\ LastDoc[e].val.n = 4660
          /\ \E q \in QualifiersOf(LastDoc, e) : LastDoc[q].val.n = 1
    /\ last.out = Out(<<70196>>)

\* C12: when the EventID element has no Qualifiers attribute, the
\* identifier a successful get_event_identifier returns has its high 16
\* bits zero.
C12_NoQualifiersHighBitsZero ==
    ( /\ EventIdentifierReturned
      /\ \A e \in EventIDs(LastDoc) : QualifiersOf(LastDoc, e) = {} )
        => last.out.v[1] \div 65536 = 0

\* the child elements of the root with the name, and the names of the
\* child elements of an element, in document order
RootElements(doc, name) == {c \in ElementsOf(doc, 1) : doc[c].name = name}

ChildNames(doc, tag) ==
    LET children == Sorted(ElementsOf(doc, tag))
    IN [i \in 1..Len(children) |-> doc[children[i]].name]

\* the length of the longest prefix of names that are all Data
DataPrefixLength(names) ==
    Cardinality({k \in 1..Len(names) : \A i \in 1..k : names[i] = NameData})

\* a Data name occurs after another name
DataAfterOther(names) ==
    \E i \in 1..Len(names), j \in 1..Len(names) :
       i < j /\ names[i] # NameData /\ names[j] = NameData

\* get_number_of_strings was called on a decoded record
NumberOfStringsCalled ==
    /\ last.op = "number_of_strings"
    /\ Decoded(last.slot)

\* C13: for an EventData container, whenever get_number_of_strings returns
\* 1 the count is the length of the longest prefix of children named Data,
\* and it returns -1 whenever a Data child occurs after a non-Data child.
C13_DataPrefixCounted ==
    NumberOfStringsCalled =>
        \A c \in RootElements(LastDoc, NameEventData) :
           /\ last.ret = 1 =>
                 last.out = Out(<<DataPrefixLength(ChildNames(LastDoc, c))>>)
           /\ DataAfterOther(ChildNames(LastDoc, c)) => last.ret = -1

\* get_number_of_strings has returned 1 with the count 2 for an EventData
\* with the children Data, Data, BinaryData
C13_Witness ==
    /\ NumberOfStringsCalled
    /\ last.ret = 1
    /\ last.out = Out(<<2>>)
    /\ \E c \in RootElements(LastDoc, NameEventData) :
          ChildNames(LastDoc, c) = <<NameData, NameData, NameBinaryData>>

\* get_number_of_strings or a string accessor was called on a decoded
\* record
StringsCalled ==
    /\ last.op \in {"number_of_strings", "string"}
    /\ Decoded(last.slot)

\* the container the record of the last call has memoised
LastContainer == record_values[last.slot].event_data_xml_tag

LastContainerType == record_values[last.slot].event_data_type

\* C14: the event-data container is Event/EventData whenever that element
\* exists; otherwise, if Event/UserData exists, it is the single child
\* element of UserData, and when UserData has no or several child elements
\* get_number_of_strings and the string accessors return -1.
C14_ContainerChoice ==
    StringsCalled =>
        LET event_data == RootElements(LastDoc, NameEventData)
            user_data == RootElements(LastDoc, NameUserData)
        IN IF event_data # {}
           THEN /\ LastContainer.node \in event_data
                /\ LastContainerType
                      = LIBEVTX_RECORD_VALUES_EVENT_DATA_TYPE_EVENT_DATA
           ELSE \A u \in user_data :
                   IF Cardinality(ElementsOf(LastDoc, u)) = 1
                   THEN /\ LastContainer.node \in ElementsOf(LastDoc, u)
                        /\ LastContainerType
                              = LIBEVTX_RECORD_VALUES_EVENT_DATA_TYPE_USER_DATA
                   ELSE last.ret = -1 /\ LastContainer = NullHandle

\* the strings of a document with EventData and UserData were counted in
\* its EventData
C14_Witness ==
    /\ StringsCalled
    /\ last.op = "number_of_strings"
    /\ last.ret = 1
    /\ RootElements(LastDoc, NameUserData) # {}
    /\ LastContainer.node \in RootElements(LastDoc, NameEventData)

\* the single child elements of the UserData elements of a document
\* without EventData: its UserData containers
UserDataContainers(doc) ==
    IF RootElements(doc, NameEventData) # {} THEN {}
    ELSE { c \in 1..Len(doc) :
             \E u \in RootElements(doc, NameUserData) :
                ElementsOf(doc, u) = {c} }

\* C15: for a UserData container, get_number_of_strings returns the number
\* of child elements of the container, whatever their names, and string(i)
\* is the value of the i-th child; when the tree has neither EventData nor
\* UserData, get_number_of_strings returns 1 with a count of 0.
C15_UserDataStrings ==
    StringsCalled =>
        /\ \A c \in UserDataContainers(LastDoc) :
              LET children == Sorted(ElementsOf(LastDoc, c))
              IN /\ last.op = "number_of_strings" =>
                       last.ret = 1 /\ last.out = Out(<<Len(children)>>)
                 /\ (last.op = "string" /\ last.index < Len(children)) =>
                       LET text == StringOf(LastDoc[children[last.index + 1]].val,
                                            last.enc, last.kind, last.size)
                       IN last.ret = text.ret /\ last.out = text.out
        /\ ( /\ last.op = "number_of_strings"
              /\ RootElements(LastDoc, NameEventData) = {}
              /\ RootElements(LastDoc, NameUserData) = {} )
                => last.ret = 1 /\ last.out = Out(<<0>>)

\* the second string of a UserData container with the children X and Y
\* was copied: "2" and the end-of-string character
C15_Witness ==
    /\ StringsCalled
    /\ last.op = "string" /\ last.index = 1 /\ last.kind = "copy"
    /\ last.enc = "utf8"
    /\ last.ret = 1
    /\ last.out = Out(<<50, 0>>)
    /\ \E c \in UserDataContainers(LastDoc) :
          ChildNames(LastDoc, c) = <<NameX, NameY>>

\* the Provider elements under Event/System, and the attributes of an
\* element with a name
Providers(doc) ==
    { p \in 1..Len(doc) :
        /\ doc[p].kind = "elem" /\ doc[p].name = NameProvider
        /\ doc[p].parent \in RootElements(doc, NameSystem) }

NamedAttributes(doc, tag, name) ==
    {a \in AttributesOf(doc, tag) : doc[a].name = name}

\* the attributes that hold the source name: the EventSourceName
\* attributes of the Provider elements or, for want of them, the Name
\* attributes
SourceNameAttributes(doc) ==
    LET preferred == UNION { NamedAttributes(doc, p, NameEventSourceName) :
                               p \in Providers(doc) }
        fallback == UNION { NamedAttributes(doc, p, NameName) :
                              p \in Providers(doc) }
    IN IF preferred # {} THEN preferred ELSE fallback

\* a source-name accessor was called on a decoded record
SourceNameCalled ==
    /\ last.op = "source_name"
    /\ Decoded(last.slot)

\* C16: each of the four source-name accessors resolves the value of the
\* attribute EventSourceName of Event/System/Provider when it exists,
\* otherwise the value of the attribute Name, and returns 0 when System,
\* Provider or both attributes are absent.
C16_SourceNamePreference ==
    SourceNameCalled =>
        IF SourceNameAttributes(LastDoc) = {}
        THEN last.ret = 0 /\ ~last.out.w
        ELSE \A a \in SourceNameAttributes(LastDoc) :
                LET text == StringOf(LastDoc[a].val, last.enc, last.kind,
                                     last.size)
                IN last.ret = text.ret /\ last.out = text.out

\* the source name of a Provider with Name "Sec" and EventSourceName "App"
\* was copied as UTF-16: "App" and the end-of-string character
C16_Witness ==
    /\ SourceNameCalled
    /\ last.enc = "utf16" /\ last.kind = "copy"
    /\ last.ret = 1
    /\ last.out = Out(<<65, 112, 112, 0>>)
    /\ \E p \in Providers(LastDoc) :
          /\ NamedAttributes(LastDoc, p, NameName) # {}
          /\ NamedAttributes(LastDoc, p, NameEventSourceName) # {}

\* the BinaryData elements under Event/EventData
BinaryDatas(doc) ==
    { b \in 1..Len(doc) :
        /\ doc[b].kind = "elem" /\ doc[b].name = NameBinaryData
        /\ doc[b].parent \in RootElements(doc, NameEventData) }

\* get_data_size or get_data was called on a decoded record
DataCalled ==
    /\ last.op = "data"
    /\ Decoded(last.slot)

\* C17: get_data_size and get_data resolve Event/EventData/BinaryData and
\* return 0, not -1, when EventData is absent or has no BinaryData child,
\* a tree with a UserData element instead included.
C17_AbsentBinaryDataReturnsZero ==
    DataCalled =>
        IF BinaryDatas(LastDoc) = {}
        THEN last.ret = 0 /\ ~last.out.w
        ELSE \A b \in BinaryDatas(LastDoc) :
                LET data == DataOf(LastDoc[b].val, last.kind, last.size)
                IN last.ret = data.ret /\ last.out = data.out

\* get_data has returned 0 on a tree with UserData and without EventData
C17_Witness ==
    /\ DataCalled
    /\ last.kind = "copy"
    /\ last.ret = 0
    /\ RootElements(LastDoc, NameEventData) = {}
    /\ RootElements(LastDoc, NameUserData) # {}

(***************************************************************************)
(* Properties of the chunk bytes the calls read.                           *)
(***************************************************************************)

\* the binary XML decoder was called by the last read_xml_document
DecoderCalled ==
    /\ last.op = "read_xml_document"
    /\ reads.to # 0

\* C18: the byte range read_xml_document hands to the binary XML decoder
\* starts behind the header of the record, at o + HDR, and ends no later
\* than o + size - 4, before the copy of the size and the rest of the chunk.
C18_DecoderRangeWithinRecord ==
    DecoderCalled =>
        LET rec == record_values[last.slot]
        IN /\ reads.from = rec.chunk_data_offset + HDR
           /\ reads.to <= rec.chunk_data_offset + rec.data_size - 4

\* C19: every byte index read_header reads, of the header at o .. o + HDR - 1
\* and of the copy of the size at o + size - 4 .. o + size - 1, lies within
\* the buffer of N bytes; a buffer with o + HDR + 4 > N is rejected before
\* any byte is read.
C19_ReadHeaderReadsWithinBuffer ==
    ReadHeaderCalled =>
        LET N == last.size
            o == last.index
        IN /\ reads.bytes \subseteq 0 .. (N - 1)
           /\ o + HDR + 4 > N => last.ret = -1 /\ reads.bytes = {}
           /\ last.ret = 1 =>
                  reads.bytes = Bytes(o, HDR) \cup Bytes(o + SizeField - 4, 4)

\* an accepted record whose copy of the size lies behind the header and
\* before further bytes of the buffer
C19_Witness ==
    /\ ReadHeaderCalled
    /\ last.ret = 1
    /\ last.index = 0
    /\ SizeField = HDR + 4
    /\ reads.bytes = 0 .. 27
    /\ last.size = 32

(***************************************************************************)
(* The order of decoding and access.                                       *)
(***************************************************************************)

\* the record of the slot exists and holds no decoded XML document: it is
\* freshly initialised, only its header was read, or read_xml_document
\* failed on it
Undecoded(s) ==
    /\ s \in Slots
    /\ record_values[s] # NULL
    /\ record_values[s].xml_document = 0

\* C20: every accessor called on a record whose XML tree has not been
\* decoded returns -1, writes no output and leaves the record unchanged; no
\* accessor returns 1 or 0 before read_xml_document has succeeded on the
\* record.
C20_NoAccessBeforeDecoding ==
    [][ (last'.op \in AccessorOps /\ Undecoded(last'.slot)) =>
            /\ last'.ret = -1
            /\ last'.out = Unwritten
            /\ record_values' = record_values
            /\ xml_documents' = xml_documents ]_vars

\* an accessor has failed on a record of which only the header was read
C20_Witness ==
    /\ last.op \in AccessorOps
    /\ Undecoded(last.slot)
    /\ record_values[last.slot].data_size = 36
    /\ last.ret = -1
    /\ last.out = Unwritten

(***************************************************************************)
(* Properties of read_xml_document, under SpecDecode.                      *)
(***************************************************************************)

ReadXmlDocumentCalled ==
    /\ last.op = "read_xml_document"
    /\ record_values[last.slot] # NULL

\* C21: read_xml_document on a record on which read_header has never
\* succeeded returns -1 and creates no tree, for every chunk buffer.
C21_DecodingRequiresHeader ==
    (ReadXmlDocumentCalled /\ last.slot \notin header_read) =>
        /\ last.ret = -1
        /\ record_values[last.slot].xml_document = 0

(***************************************************************************)
(* Rejected calls, the release of a record and the frame of the calls.     *)
(***************************************************************************)

\* the step is a call on a target that is set already: initialize or clone
\* into a slot that holds a record, or read_xml_document on a record that
\* owns a tree
TargetAlreadySet ==
    \/ /\ last'.op \in {"initialize", "clone"}
       /\ record_values[last'.slot] # NULL
    \/ /\ last'.op = "read_xml_document"
       /\ Decoded(last'.slot)

\* C22: initialize on a slot that holds a record, clone into a slot that
\* holds a record and read_xml_document on a record that owns a tree return
\* -1 and leave the records and the trees as they were.
C22_SetTargetRejectedUnchanged ==
    [][ TargetAlreadySet =>
            /\ last'.ret = -1
            /\ record_values' = record_values
            /\ xml_documents' = xml_documents ]_vars

\* read_xml_document was rejected on a record that keeps its live tree
C22_Witness ==
    /\ last.op = "read_xml_document"
    /\ last.ret = -1
    /\ Decoded(last.slot)
    /\ IsLive(record_values[last.slot].xml_document)
    /\ header_read = Slots

\* C23: free leaves the slot without record whatever it returns; it
\* returns -1 only when the release of the record's tree failed, and the
\* tree of a record freed with 1 is released; on a slot without record it
\* returns 1 and changes nothing.
C23_FreeAlwaysReleasesRecord ==
    [][ last'.op = "free" =>
            LET s == last'.slot
                rec == record_values[s]
            IN /\ record_values'[s] = NULL
               /\ \A o \in Slots \ {s} : record_values'[o] = record_values[o]
               /\ rec = NULL =>
                      /\ last'.ret = 1
                      /\ xml_documents' = xml_documents
               /\ (rec # NULL /\ rec.xml_document = 0) =>
                      /\ last'.ret = 1
                      /\ xml_documents' = xml_documents
               /\ (rec # NULL /\ rec.xml_document # 0) =>
                      \/ /\ last'.ret = 1
                         /\ xml_documents' =
                              [xml_documents EXCEPT
                                 ![rec.xml_document].state = "freed"]
                      \/ /\ last'.ret = -1
                         /\ xml_documents' = xml_documents ]_vars

\* free has failed to release the tree, and the slot holds no record
C23_Witness ==
    /\ last.op = "free"
    /\ last.ret = -1
    /\ record_values[last.slot] = NULL
    /\ \E t \in TreeIds : IsLive(t)

(***************************************************************************)
(* The copy of the size, under SpecHeader.                                 *)
(***************************************************************************)

\* the values of the four bytes of a copy of the size
CopyBytes == {<<0, 0, 0, 0>>, <<24, 0, 0, 0>>, <<28, 0, 0, 0>>, <<0, 0, 0, 1>>}

\* the copy of the size behind the record at the offset of the last call,
\* when the size is at least HDR + 4 and the buffer holds the copy
CopyOfSizePresent ==
    /\ SizeFieldPresent
    /\ SizeField >= HDR + 4
    /\ last.index + SizeField <= Len(chunk_data)

CopyOfSize ==
    byte_stream_copy_to_uint32_little_endian(
        chunk_data, last.index + SizeField - 4)

\* C24: for two buffers that differ only in the four bytes of the copy of
\* the size at o + size - 4, with size >= HDR + 4, read_header returns the
\* same result and stores the same header fields.
C24_CopyOfSizeIgnored ==
    (ReadHeaderCalled /\ CopyOfSizePresent) =>
        \A bytes \in CopyBytes :
           LET o == last.index
               other == Overlay(chunk_data, o + SizeField - 4, bytes)
               res == read_header(record_values[last.slot], other,
                                  Len(other), o)
           IN /\ res.ret = last.ret
              /\ HeaderFields(res.rec) = HeaderFields(record_values[last.slot])

\* a record accepted although the copy of its size differs from the size
C24_Witness ==
    /\ ReadHeaderCalled
    /\ last.ret = 1
    /\ CopyOfSizePresent
    /\ CopyOfSize # SizeField
    /\ record_values[last.slot].data_size = SizeField

\* C25: the walk from the root that resolves a memoised field is performed
\* at most once: a call for a field that follows a call for the same field
\* on the same decoded record, of any variant, does not walk from the root.
C25_FieldResolvedAtMostOnce ==
    [][ (/\ last.op \in MemoisingOps
         /\ last'.op \in MemoisingOps
         /\ FieldOf(last'.op) = FieldOf(last.op)
         /\ last'.slot = last.slot
         /\ Decoded(last.slot)) =>
            ~WalksFromRoot(last'.op, record_values[last'.slot]) ]_vars

\* C26: for an EventData container the string and string-size accessors
\* return 1 only for an index below the number of strings, the length of
\* the prefix of children named Data: they never yield the value of a
\* child that is not a Data element.
C26_StringIndexBelowCount ==
    (last.op = "string" /\ Decoded(last.slot) /\ last.ret = 1) =>
        \A c \in RootElements(LastDoc, NameEventData) :
           /\ last.index >= 0
           /\ last.index < DataPrefixLength(ChildNames(LastDoc, c))

\* C27: for every record on which read_header returned 1, the length of
\* the binary XML, data_size - (HDR + 4), does not underflow, and its range
\* satisfies o + HDR <= o + HDR + length <= N for the buffer of N bytes.
C27_XmlDataSizeDoesNotUnderflow ==
    (ReadHeaderCalled /\ last.ret = 1) =>
        LET rec == record_values[last.slot]
        IN /\ ~SizeLess(rec.data_size, HDR + 4)
           /\ SizeLeq(XmlDataOffset(rec), XmlDataOffset(rec) + XmlDataSize(rec))
           /\ SizeLeq(XmlDataOffset(rec) + XmlDataSize(rec), last.size)

\* C28: when read_xml_document returns -1 on a record without tree, the
\* record has no tree afterwards, its header fields and memoised handles
\* are as before and no tree is left behind, so that a later
\* read_xml_document can still succeed on it.
C28_FailedDecodingLeavesRecord ==
    [][ (last'.op = "read_xml_document" /\ last'.ret = -1
            /\ Undecoded(last'.slot)) =>
            /\ record_values' = record_values
            /\ xml_documents' = xml_documents ]_vars

\* read_xml_document has succeeded right after it had failed on the record
C28_Witness ==
    /\ last.op = "read_xml_document"
    /\ last.ret = 1
    /\ prev.same
    /\ prev.ret = -1
    /\ Decoded(last.slot)

\* the fields of the record an accessor may write
OwnFields(op) ==
    CASE op = "event_identifier" -> {"event_identifier_value"}
      [] op = "event_level" -> {"level_value"}
      [] op = "source_name" -> {"provider_name_value"}
      [] op = "computer_name" -> {"computer_value"}
      [] op \in {"number_of_strings", "string"} ->
             {"event_data_xml_tag", "event_data_type"}
      [] op = "data" -> {"binary_data_value"}
      [] op = "xml_string" -> {}

\* C29: every accessor leaves the header fields and the tree handle of the
\* record unchanged and writes at most its own memoised field; an accessor
\* that returns 0 leaves every field of the record unchanged.
C29_AccessorsWriteOwnFieldOnly ==
    [][ (last'.op \in AccessorOps /\ record_values[last'.slot] # NULL) =>
            LET rec == record_values[last'.slot]
                after == record_values'[last'.slot]
            IN /\ after # NULL
               /\ \A f \in (DOMAIN rec) \ OwnFields(last'.op) :
                     after[f] = rec[f]
               /\ last'.ret = 0 => after = rec
               /\ \A o \in Slots \ {last'.slot} :
                     record_values'[o] = record_values[o]
               /\ xml_documents' = xml_documents ]_vars

\* an accessor has memoised its field on a decoded record
C29_Witness ==
    /\ last.op = "computer_name"
    /\ last.ret = 1
    /\ Decoded(last.slot)
    /\ record_values[last.slot].computer_value # NullHandle
    /\ record_values[last.slot].level_value = NullHandle

\* C30: once read_xml_document has succeeded on a record, its
\* chunk_data_offset, data_size, identifier and written_time do not change
\* as long as the record lives: the header fields and the tree describe the
\* same record.
C30_HeaderFixedAfterDecoding ==
    [][ \A s \in Slots :
           (Decoded(s) /\ record_values'[s] # NULL) =>
               HeaderFields(record_values'[s]) = HeaderFields(record_values[s])
      ]_vars

=============================================================================
